---- MODULE Spec2Model ----
(***************************************************************************)
(* Book catalogue: the in-memory REST API of server.js and the React       *)
(* client of BooksApp.jsx.                                                 *)
(*                                                                         *)
(* JavaScript strings are modelled as sequences of one-character strings,  *)
(* so that trim, toLowerCase, includes, Number(...) and String(...) are    *)
(* computed character by character.  JavaScript numbers are modelled as    *)
(* integers plus the value NaN.                                            *)
(***************************************************************************)
EXTENDS Integers, Sequences, FiniteSets, TLC

VARIABLES
    books,      \* server.js: the in-memory array `books`
    born,       \* ghost, parallel to books: the serial number of the create
                \* request that pushed each element (seeds: 1 and 2)
    creates,    \* ghost: number of elements ever put in books (seeds included)
    now,        \* the value Date.now() returns at this instant
    handled,    \* ghost: number of mutating requests handled so far
    lastMut,    \* ghost: the last mutating request, the array before it, its response
    resp,       \* ghost: the last response sent by the server
    \* BooksApp.jsx: the component's state
    mirror,     \* useState `books`: the local mirror of the collection
    loading, error,
    query, sortBy, page,
    isFormOpen, editingBook,
    deleting,
    toast,
    form, formErrors,
    mounted,    \* the mount effect has run (load() was called)
    net,        \* the fetch calls in flight: request id -> request and response
    sent,       \* ghost: number of mutating requests the client has issued
    lastDone,   \* ghost: the last mutating call that completed, the mirror around it
    lastSubmit, \* ghost: the last run of submitForm, the state around it
    foreign,    \* ghost: number of requests of other clients handled so far
    gestures    \* ghost: number of clicks and edits the user has made

serverVars == <<books, born, creates, now, handled, lastMut, resp>>
viewVars == <<query, sortBy, page>>
formVars == <<isFormOpen, editingBook, form, formErrors>>
clientVars == <<mirror, loading, error, viewVars, formVars, deleting, toast, mounted,
                net, sent, lastDone, lastSubmit>>
envVars == <<serverVars, foreign>>
vars == <<serverVars, clientVars, foreign, gestures>>

-----------------------------------------------------------------------------
(* Bounds *)

StartTime == 3     \* Date.now() when the server starts (greater than the seed ids)
MaxTime == 4       \* last clock value explored
MaxHandled == 3    \* mutating requests explored per behaviour of the API service
MaxSent == 2       \* mutating requests the component issues per behaviour
MaxForeign == 1    \* requests of other clients per behaviour of the component
MaxGestures == 4   \* clicks and edits of the user per behaviour of the component
MaxMirror == 3     \* longest mirror the filter is applied to

-----------------------------------------------------------------------------
(* JavaScript strings and numbers *)

\* NaN: the one value outside the non-negative integers that occur as numbers
NaN == 0 - 1

Digits == <<"0", "1", "2", "3", "4", "5", "6", "7", "8", "9">>
Upper == <<"A", "B", "C", "D", "E", "F", "G", "H", "I", "J", "K", "L", "M",
           "N", "O", "P", "Q", "R", "S", "T", "U", "V", "W", "X", "Y", "Z">>
Lower == <<"a", "b", "c", "d", "e", "f", "g", "h", "i", "j", "k", "l", "m",
           "n", "o", "p", "q", "r", "s", "t", "u", "v", "w", "x", "y", "z">>

IsDigit(c) == \E i \in DOMAIN Digits : Digits[i] = c
DigitVal(c) == (CHOOSE i \in DOMAIN Digits : Digits[i] = c) - 1
IsWhite(c) == c = " "

RECURSIVE TrimStart(_)
TrimStart(s) == IF s # <<>> /\ IsWhite(Head(s)) THEN TrimStart(Tail(s)) ELSE s

RECURSIVE TrimEnd(_)
TrimEnd(s) ==
    IF s # <<>> /\ IsWhite(s[Len(s)]) THEN TrimEnd(SubSeq(s, 1, Len(s) - 1)) ELSE s

\* String.prototype.trim
Trim(s) == TrimEnd(TrimStart(s))

RECURSIVE DecimalValue(_)
DecimalValue(s) ==
    IF s = <<>> THEN 0
    ELSE 10 * DecimalValue(SubSeq(s, 1, Len(s) - 1)) + DigitVal(s[Len(s)])

\* ToNumber applied to a string: white space is stripped, the empty string is 0,
\* a run of decimal digits is its value and anything else is NaN.  (Signs,
\* fractions, exponents and radix prefixes do not occur in the inputs explored.)
ToNumber(s) ==
    LET t == Trim(s)
    IN  IF \A i \in DOMAIN t : IsDigit(t[i]) THEN DecimalValue(t) ELSE NaN

RECURSIVE NumToStr(_)
\* String(n) for a non-negative integer n, as the template literal builds the URL
NumToStr(n) ==
    IF n < 10 THEN <<Digits[n + 1]>>
    ELSE NumToStr(n \div 10) \o <<Digits[(n % 10) + 1]>>

\* number == string: the string is converted by ToNumber and the numbers are
\* compared; NaN equals nothing.  m is the converted string.
LooseEq(n, m) == m # NaN /\ n = m

-----------------------------------------------------------------------------
(* server.js *)

TheHobbit == <<"T", "h", "e", " ", "H", "o", "b", "b", "i", "t">>
Tolkien == <<"J", ".", "R", ".", "R", ".", " ", "T", "o", "l", "k", "i", "e", "n">>
NineteenEightyFour == <<"1", "9", "8", "4">>
Orwell == <<"G", "e", "o", "r", "g", "e", " ", "O", "r", "w", "e", "l", "l">>

Book(id, title, author) == [id |-> id, title |-> title, author |-> author]

SeedBooks == << Book(1, TheHobbit, Tolkien), Book(2, NineteenEightyFour, Orwell) >>

NotFound == [message |-> "Book not found"]
Deleted == [message |-> "Book deleted"]

NoRequest == [op |-> "NONE"]

\* books.findIndex(b => b.id == id): the first matching index, 0 for -1
FindIndex(bs, id) ==
    LET m == ToNumber(id)
    IN  IF \E i \in DOMAIN bs : LooseEq(bs[i].id, m)
        THEN CHOOSE i \in DOMAIN bs :
                /\ LooseEq(bs[i].id, m)
                /\ \A j \in 1..(i - 1) : ~LooseEq(bs[j].id, m)
        ELSE 0

\* the indices kept by books.filter(b => b.id != id), in order
RECURSIVE KeptIndices(_, _, _)
KeptIndices(bs, m, i) ==
    IF i > Len(bs) THEN <<>>
    ELSE IF ~LooseEq(bs[i].id, m) THEN <<i>> \o KeptIndices(bs, m, i + 1)
    ELSE KeptIndices(bs, m, i + 1)

Pick(seq, idx) == [k \in DOMAIN idx |-> seq[idx[k]]]

ServerInit ==
    /\ books = SeedBooks
    /\ born = <<1, 2>>
    /\ creates = 2
    /\ now = StartTime
    /\ handled = 0
    /\ lastMut = NoRequest
    /\ resp = NoRequest

\* time passes between two requests
Tick ==
    /\ now < MaxTime
    /\ now' = now + 1
    /\ UNCHANGED <<books, born, creates, handled, lastMut, resp>>

\* app.get("/books")
GetBooks ==
    /\ resp' = [op |-> "GET", status |-> 200, body |-> books]
    /\ UNCHANGED <<books, born, creates, now, handled, lastMut>>

\* faulty variant of app.post: unshift in place of push
PostBooks_Unshift(title, author) ==
    LET newBook == Book(now, title, author)
        r == [op |-> "POST", status |-> 201, body |-> newBook]
    IN  /\ books' = <<newBook>> \o books
        /\ born' = <<creates + 1>> \o born
        /\ creates' = creates + 1
        /\ handled' = handled + 1
        /\ lastMut' = [op |-> "POST", id |-> <<>>, title |-> title, author |-> author,
                       before |-> books, status |-> r.status, body |-> r.body]
        /\ resp' = r
        /\ UNCHANGED now

\* app.post("/books")
PostBooks(title, author) ==
    LET newBook == Book(now, title, author)
        r == [op |-> "POST", status |-> 201, body |-> newBook]
    IN  /\ books' = Append(books, newBook)
        /\ born' = Append(born, creates + 1)
        /\ creates' = creates + 1
        /\ handled' = handled + 1
        /\ lastMut' = [op |-> "POST", id |-> <<>>, title |-> title, author |-> author,
                       before |-> books, status |-> r.status, body |-> r.body]
        /\ resp' = r
        /\ UNCHANGED now

\* faulty variant of app.put: a missing id is inserted
PutBooks_Upsert(id, title, author) ==
    LET bookIndex == FindIndex(books, id)
        updated == Book(ToNumber(id), title, author)
        r == IF bookIndex # 0 \/ ToNumber(id) # NaN
             THEN [op |-> "PUT", status |-> 200, body |-> updated]
             ELSE [op |-> "PUT", status |-> 404, body |-> NotFound]
    IN  /\ books' = IF bookIndex # 0 THEN [books EXCEPT ![bookIndex] = updated]
                    ELSE IF ToNumber(id) # NaN THEN Append(books, updated)
                    ELSE books
        /\ born' = IF bookIndex = 0 /\ ToNumber(id) # NaN
                   THEN Append(born, creates + 1) ELSE born
        /\ creates' = IF bookIndex = 0 /\ ToNumber(id) # NaN THEN creates + 1 ELSE creates
        /\ handled' = handled + 1
        /\ lastMut' = [op |-> "PUT", id |-> id, title |-> title, author |-> author,
                       before |-> books, status |-> r.status, body |-> r.body]
        /\ resp' = r
        /\ UNCHANGED now

\* faulty variant of app.put: findLastIndex in place of findIndex
PutBooks_Last(id, title, author) ==
    LET hits == {i \in DOMAIN books : LooseEq(books[i].id, ToNumber(id))}
        bookIndex == IF hits = {} THEN 0 ELSE CHOOSE i \in hits : \A j \in hits : j <= i
        updated == Book(ToNumber(id), title, author)
        r == IF bookIndex # 0
             THEN [op |-> "PUT", status |-> 200, body |-> updated]
             ELSE [op |-> "PUT", status |-> 404, body |-> NotFound]
    IN  /\ books' = IF bookIndex # 0 THEN [books EXCEPT ![bookIndex] = updated] ELSE books
        /\ handled' = handled + 1
        /\ lastMut' = [op |-> "PUT", id |-> id, title |-> title, author |-> author,
                       before |-> books, status |-> r.status, body |-> r.body]
        /\ resp' = r
        /\ UNCHANGED <<born, creates, now>>

\* app.put("/books/:id")
PutBooks(id, title, author) ==
    LET bookIndex == FindIndex(books, id)
        updated == Book(ToNumber(id), title, author)
        r == IF bookIndex # 0
             THEN [op |-> "PUT", status |-> 200, body |-> updated]
             ELSE [op |-> "PUT", status |-> 404, body |-> NotFound]
    IN  /\ books' = IF bookIndex # 0 THEN [books EXCEPT ![bookIndex] = updated] ELSE books
        /\ handled' = handled + 1
        /\ lastMut' = [op |-> "PUT", id |-> id, title |-> title, author |-> author,
                       before |-> books, status |-> r.status, body |-> r.body]
        /\ resp' = r
        /\ UNCHANGED <<born, creates, now>>

\* faulty variant of app.delete: the last record is moved into the freed slot
DeleteBooks_SwapRemove(id) ==
    LET bookIndex == FindIndex(books, id)
        n == Len(books)
        kept == IF bookIndex = 0 THEN [i \in DOMAIN books |-> i]
                ELSE [i \in 1..(n - 1) |-> IF i = bookIndex THEN n ELSE i]
        r == [op |-> "DELETE", status |-> 200, body |-> Deleted]
    IN  /\ books' = Pick(books, kept)
        /\ born' = Pick(born, kept)
        /\ handled' = handled + 1
        /\ lastMut' = [op |-> "DELETE", id |-> id, title |-> <<>>, author |-> <<>>,
                       before |-> books, status |-> r.status, body |-> r.body]
        /\ resp' = r
        /\ UNCHANGED <<creates, now>>

\* faulty variant of app.delete: only the first match is removed
DeleteBooks_First(id) ==
    LET bookIndex == FindIndex(books, id)
        kept == IF bookIndex = 0 THEN [i \in DOMAIN books |-> i]
                ELSE [i \in 1..(Len(books) - 1) |-> IF i < bookIndex THEN i ELSE i + 1]
        r == [op |-> "DELETE", status |-> 200, body |-> Deleted]
    IN  /\ books' = Pick(books, kept)
        /\ born' = Pick(born, kept)
        /\ handled' = handled + 1
        /\ lastMut' = [op |-> "DELETE", id |-> id, title |-> <<>>, author |-> <<>>,
                       before |-> books, status |-> r.status, body |-> r.body]
        /\ resp' = r
        /\ UNCHANGED <<creates, now>>

\* app.delete("/books/:id")
DeleteBooks(id) ==
    LET kept == KeptIndices(books, ToNumber(id), 1)
        r == [op |-> "DELETE", status |-> 200, body |-> Deleted]
    IN  /\ books' = Pick(books, kept)
        /\ born' = Pick(born, kept)
        /\ handled' = handled + 1
        /\ lastMut' = [op |-> "DELETE", id |-> id, title |-> <<>>, author |-> <<>>,
                       before |-> books, status |-> r.status, body |-> r.body]
        /\ resp' = r
        /\ UNCHANGED <<creates, now>>

-----------------------------------------------------------------------------
(* BooksApp.jsx: derived values *)

pageSize == 8

Null == [null |-> TRUE]

ToLowerChar(c) ==
    IF \E i \in DOMAIN Upper : Upper[i] = c
    THEN Lower[CHOOSE i \in DOMAIN Upper : Upper[i] = c]
    ELSE c

\* String.prototype.toLowerCase
ToLowerCase(s) == [i \in DOMAIN s |-> ToLowerChar(s[i])]

\* String.prototype.includes
Includes(s, q) ==
    \E k \in 0..(Len(s) - Len(q)) : SubSeq(s, k + 1, k + Len(q)) = q

\* the collation order of the characters used: white space and punctuation,
\* then digits, then letters; letters of either case share a primary weight
Collation == <<" ", ".">> \o Digits \o Lower

Primary(c) == CHOOSE i \in DOMAIN Collation : Collation[i] = ToLowerChar(c)

\* lower case sorts before upper case when the primary weights are all equal
Tertiary(c) == IF \E i \in DOMAIN Upper : Upper[i] = c THEN 1 ELSE 0

Weight(level, c) == IF level = "primary" THEN Primary(c) ELSE Tertiary(c)

RECURSIVE CompareBy(_, _, _)
\* the first difference of weights at one level decides; a prefix sorts first
CompareBy(level, a, b) ==
    IF a = <<>> /\ b = <<>> THEN 0
    ELSE IF a = <<>> THEN 0 - 1
    ELSE IF b = <<>> THEN 1
    ELSE IF Weight(level, Head(a)) < Weight(level, Head(b)) THEN 0 - 1
    ELSE IF Weight(level, Head(a)) > Weight(level, Head(b)) THEN 1
    ELSE CompareBy(level, Tail(a), Tail(b))

\* String.prototype.localeCompare in the default locale
LocaleCompare(a, b) ==
    IF CompareBy("primary", a, b) # 0 THEN CompareBy("primary", a, b)
    ELSE CompareBy("tertiary", a, b)

SortOptions == { <<"id", "desc">>, <<"id", "asc">>, <<"title", "asc">>,
                 <<"title", "desc">>, <<"author", "asc">>, <<"author", "desc">> }

\* the comparator handed to arr.sort; srt is the pair sortBy.split('-')
Comparator(srt, a, b) ==
    LET fld == srt[1]
        dir == srt[2]
    IN  IF fld = "title"
        THEN (IF dir = "asc" THEN LocaleCompare(a.title, b.title)
              ELSE LocaleCompare(b.title, a.title))
        ELSE IF fld = "author"
        THEN (IF dir = "asc" THEN LocaleCompare(a.author, b.author)
              ELSE LocaleCompare(b.author, a.author))
        ELSE (IF dir = "asc" THEN a.id - b.id ELSE b.id - a.id)

\* one step of a stable sort: x goes after every element that does not sort after it
Insert(srt, sorted, x) ==
    LET after == {i \in DOMAIN sorted : Comparator(srt, sorted[i], x) > 0}
        k == IF after = {} THEN Len(sorted) + 1
             ELSE CHOOSE i \in after : \A j \in after : i <= j
    IN  SubSeq(sorted, 1, k - 1) \o <<x>> \o SubSeq(sorted, k, Len(sorted))

RECURSIVE Sort(_, _)
\* Array.prototype.sort (stable)
Sort(srt, arr) ==
    IF arr = <<>> THEN <<>>
    ELSE Insert(srt, Sort(srt, SubSeq(arr, 1, Len(arr) - 1)), arr[Len(arr)])

\* faulty variant of the filter predicate: titles and authors are not lower-cased
Matches_CaseSensitive(b, q) == Includes(b.title, q) \/ Includes(b.author, q)

\* b => b.title.toLowerCase().includes(q) || b.author.toLowerCase().includes(q)
Matches(b, q) == Includes(ToLowerCase(b.title), q) \/ Includes(ToLowerCase(b.author), q)

\* the useMemo `filtered`
Filtered(bs, qry, srt) ==
    LET q == ToLowerCase(Trim(qry))
        keep(b) == Matches(b, q)
        arr == IF q # <<>> THEN SelectSeq(bs, keep) ELSE bs
    IN  Sort(srt, arr)

filtered == Filtered(mirror, query, sortBy)

Max(a, b) == IF a >= b THEN a ELSE b
Min(a, b) == IF a <= b THEN a ELSE b

\* Math.max(1, Math.ceil(filtered.length / pageSize))
totalPages == Max(1, (Len(filtered) + pageSize - 1) \div pageSize)

\* filtered.slice((page - 1) * pageSize, page * pageSize)
pageItems == SubSeq(filtered, (page - 1) * pageSize + 1, Min(page * pageSize, Len(filtered)))

\* the cards on screen: the grid is rendered when loading and error are unset
Cards ==
    IF ~loading /\ error = Null THEN {pageItems[i] : i \in DOMAIN pageItems} ELSE {}

\* no modal is open: both modals are fixed full-viewport layers above the page, so
\* the page's buttons and inputs take no click while one is shown
NoOverlay == ~isFormOpen /\ deleting = Null

emptyForm == [title |-> <<>>, author |-> <<>>]

\* faulty variant of validateForm: the lengths are taken before trimming
ValidationErrors_NoTrim(f) ==
    (IF Len(f.title) < 2 THEN {"title"} ELSE {})
        \cup (IF Len(f.author) < 3 THEN {"author"} ELSE {})

\* validateForm: the keys of errs
ValidationErrors(f) ==
    (IF f.title = <<>> \/ Len(Trim(f.title)) < 2 THEN {"title"} ELSE {})
        \cup (IF f.author = <<>> \/ Len(Trim(f.author)) < 3 THEN {"author"} ELSE {})

-----------------------------------------------------------------------------
(* BooksApp.jsx: the component *)

Request(kind, id, key, title, author) ==
    [kind |-> kind, id |-> id, key |-> key, title |-> title, author |-> author,
     stage |-> "sent", served |-> FALSE, status |-> 0, body |-> Null]

\* res.ok
Ok(r) == r.stage = "answered" /\ r.status >= 200 /\ r.status <= 299

Without(f, k) == [x \in DOMAIN f \ {k} |-> f[x]]

Toast(type, message) == [type |-> type, message |-> message]

\* faulty variant of the effect on [totalPages]: the page is left as it is
ClampedPage_NoClamp(newMirror) == page

\* the effect on [totalPages]: after a render in which totalPages changed, a page
\* beyond the last one is set to the last one
ClampedPage(newMirror) ==
    LET tp == Max(1, (Len(Filtered(newMirror, query, sortBy)) + pageSize - 1) \div pageSize)
    IN  IF tp # totalPages /\ page > tp THEN tp ELSE page

ClientInit ==
    /\ mirror = <<>>
    /\ loading = TRUE
    /\ error = Null
    /\ query = <<>>
    /\ sortBy = <<"id", "desc">>
    /\ page = 1
    /\ isFormOpen = FALSE
    /\ editingBook = Null
    /\ deleting = Null
    /\ toast = Null
    /\ form = emptyForm
    /\ formErrors = {}
    /\ mounted = FALSE
    /\ net = <<>>
    /\ sent = 0
    /\ lastDone = NoRequest
    /\ lastSubmit = NoRequest

\* the mount effect: load() up to its await
load ==
    /\ ~mounted
    /\ mounted' = TRUE
    /\ loading' = TRUE
    /\ error' = Null
    /\ net' = net @@ (0 :> Request("load", <<>>, 0, <<>>, <<>>))
    /\ UNCHANGED <<mirror, viewVars, formVars, deleting, toast, sent, lastDone, lastSubmit>>

\* load() after its await
loadDone ==
    /\ 0 \in DOMAIN net
    /\ net[0].stage \in {"answered", "failed"}
    /\ IF Ok(net[0])
       THEN /\ mirror' = net[0].body
            /\ page' = ClampedPage(net[0].body)
            /\ UNCHANGED error
       ELSE /\ error' = [message |-> IF net[0].stage = "failed" THEN "Failed to fetch"
                                     ELSE "Failed to fetch books"]
            /\ UNCHANGED <<mirror, page>>
    /\ loading' = FALSE
    /\ net' = Without(net, 0)
    /\ UNCHANGED <<query, sortBy, formVars, deleting, toast, mounted, sent, lastDone,
                   lastSubmit>>

openCreate ==
    /\ NoOverlay
    /\ editingBook' = Null
    /\ form' = emptyForm
    /\ formErrors' = {}
    /\ isFormOpen' = TRUE
    /\ UNCHANGED <<mirror, loading, error, viewVars, deleting, toast, mounted, net, sent,
                   lastDone, lastSubmit>>

openEdit(book) ==
    /\ NoOverlay
    /\ book \in Cards
    /\ editingBook' = book
    /\ form' = [title |-> book.title, author |-> book.author]
    /\ formErrors' = {}
    /\ isFormOpen' = TRUE
    /\ UNCHANGED <<mirror, loading, error, viewVars, deleting, toast, mounted, net, sent,
                   lastDone, lastSubmit>>

\* the title input's onChange
setTitle(v) ==
    /\ isFormOpen
    /\ form' = [form EXCEPT !.title = v]
    /\ UNCHANGED <<mirror, loading, error, viewVars, isFormOpen, editingBook, formErrors,
                   deleting, toast, mounted, net, sent, lastDone, lastSubmit>>

\* the author input's onChange
setAuthor(v) ==
    /\ isFormOpen
    /\ form' = [form EXCEPT !.author = v]
    /\ UNCHANGED <<mirror, loading, error, viewVars, isFormOpen, editingBook, formErrors,
                   deleting, toast, mounted, net, sent, lastDone, lastSubmit>>

\* the form's close and Cancel buttons
closeForm ==
    /\ isFormOpen
    /\ isFormOpen' = FALSE
    /\ UNCHANGED <<mirror, loading, error, viewVars, editingBook, form, formErrors,
                   deleting, toast, mounted, net, sent, lastDone, lastSubmit>>

SubmitRecord(wasSent) ==
    [op |-> "submit", title |-> form.title, author |-> form.author, sent |-> wasSent,
     patched |-> mirror' # mirror, open |-> isFormOpen']

\* faulty variant of submitForm: a created book is shown before the server answers
submitForm_Optimistic ==
    /\ isFormOpen
    /\ formErrors' = ValidationErrors(form)
    /\ IF ValidationErrors(form) # {}
       THEN UNCHANGED <<net, sent, mirror>>
       ELSE LET payload == [title |-> Trim(form.title), author |-> Trim(form.author)]
            IN  /\ sent < MaxSent
                /\ sent' = sent + 1
                /\ IF editingBook # Null
                   THEN /\ net' = net @@ (sent + 1 :>
                                Request("update", NumToStr(editingBook.id), editingBook.id,
                                        payload.title, payload.author))
                        /\ UNCHANGED mirror
                   ELSE /\ net' = net @@ (sent + 1 :>
                                Request("create", <<>>, 0, payload.title, payload.author))
                        /\ mirror' = Append(mirror, Book(0, payload.title, payload.author))
    /\ UNCHANGED <<loading, error, viewVars, isFormOpen, editingBook, form, deleting, toast,
                   mounted, lastDone>>
    /\ lastSubmit' = SubmitRecord(ValidationErrors(form) = {})

\* submitForm up to the await in createBook or updateBook
submitForm ==
    /\ isFormOpen
    /\ formErrors' = ValidationErrors(form)
    /\ IF ValidationErrors(form) # {}
       THEN UNCHANGED <<net, sent>>
       ELSE LET payload == [title |-> Trim(form.title), author |-> Trim(form.author)]
            IN  /\ sent < MaxSent
                /\ sent' = sent + 1
                /\ IF editingBook # Null
                   THEN net' = net @@ (sent + 1 :>
                                Request("update", NumToStr(editingBook.id), editingBook.id,
                                        payload.title, payload.author))
                   ELSE net' = net @@ (sent + 1 :>
                                Request("create", <<>>, 0, payload.title, payload.author))
    /\ UNCHANGED <<mirror, loading, error, viewVars, isFormOpen, editingBook, form,
                   deleting, toast, mounted, lastDone>>
    /\ lastSubmit' = SubmitRecord(ValidationErrors(form) = {})

DoneRecord(rid) ==
    [op |-> net[rid].kind, ok |-> Ok(net[rid]), served |-> net[rid].served,
     status |-> IF net[rid].stage = "answered" THEN net[rid].status ELSE 0,
     patched |-> mirror' # mirror, clamped |-> page' # page, toast |-> toast'.type]

\* createBook after its await, and the rest of submitForm
createDone(rid) ==
    /\ rid \in DOMAIN net
    /\ net[rid].kind = "create"
    /\ net[rid].stage \in {"answered", "failed"}
    /\ IF Ok(net[rid])
       THEN /\ mirror' = Append(mirror, net[rid].body)
            /\ page' = ClampedPage(mirror')
            /\ toast' = Toast("success", "Book added")
            /\ isFormOpen' = FALSE
       ELSE /\ toast' = Toast("error", IF net[rid].stage = "failed" THEN "Failed to fetch"
                                       ELSE "Failed to create book")
            /\ UNCHANGED <<mirror, page, isFormOpen>>
    /\ net' = Without(net, rid)
    /\ lastDone' = DoneRecord(rid)
    /\ UNCHANGED <<loading, error, query, sortBy, editingBook, form, formErrors, deleting,
                   mounted, sent, lastSubmit>>

\* faulty variant of updateBook: res.ok is not tested
updateDone_NoOkCheck(rid) ==
    /\ rid \in DOMAIN net
    /\ net[rid].kind = "update"
    /\ net[rid].stage \in {"answered", "failed"}
    /\ IF net[rid].stage = "answered"
       THEN /\ mirror' = [i \in DOMAIN mirror |->
                            IF "id" \in DOMAIN net[rid].body /\ mirror[i].id = net[rid].body.id
                            THEN net[rid].body ELSE mirror[i]]
            /\ page' = ClampedPage(mirror')
            /\ toast' = Toast("success", "Book updated")
            /\ isFormOpen' = FALSE
       ELSE /\ toast' = Toast("error", "Failed to fetch")
            /\ UNCHANGED <<mirror, page, isFormOpen>>
    /\ net' = Without(net, rid)
    /\ lastDone' = DoneRecord(rid)
    /\ UNCHANGED <<loading, error, query, sortBy, editingBook, form, formErrors, deleting,
                   mounted, sent, lastSubmit>>

\* updateBook after its await, and the rest of submitForm
updateDone(rid) ==
    /\ rid \in DOMAIN net
    /\ net[rid].kind = "update"
    /\ net[rid].stage \in {"answered", "failed"}
    /\ IF Ok(net[rid])
       THEN /\ mirror' = [i \in DOMAIN mirror |->
                            IF mirror[i].id = net[rid].body.id THEN net[rid].body
                            ELSE mirror[i]]
            /\ page' = ClampedPage(mirror')
            /\ toast' = Toast("success", "Book updated")
            /\ isFormOpen' = FALSE
       ELSE /\ toast' = Toast("error", IF net[rid].stage = "failed" THEN "Failed to fetch"
                                       ELSE "Failed to update book")
            /\ UNCHANGED <<mirror, page, isFormOpen>>
    /\ net' = Without(net, rid)
    /\ lastDone' = DoneRecord(rid)
    /\ UNCHANGED <<loading, error, query, sortBy, editingBook, form, formErrors, deleting,
                   mounted, sent, lastSubmit>>

\* a card's Delete button: setDeleting(book)
askDelete(book) ==
    /\ NoOverlay
    /\ book \in Cards
    /\ deleting' = book
    /\ UNCHANGED <<mirror, loading, error, viewVars, formVars, toast, mounted, net, sent,
                   lastDone, lastSubmit>>

\* the confirmation's Cancel button
cancelDelete ==
    /\ deleting # Null
    /\ deleting' = Null
    /\ UNCHANGED <<mirror, loading, error, viewVars, formVars, toast, mounted, net, sent,
                   lastDone, lastSubmit>>

\* the confirmation's Delete button: removeBook(deleting.id) up to its await
confirmDelete ==
    /\ deleting # Null
    /\ sent < MaxSent
    /\ sent' = sent + 1
    /\ net' = net @@ (sent + 1 :>
                Request("remove", NumToStr(deleting.id), deleting.id, <<>>, <<>>))
    /\ UNCHANGED <<mirror, loading, error, viewVars, formVars, deleting, toast, mounted,
                   lastDone, lastSubmit>>

\* removeBook after its await, and the rest of the button's handler
removeDone(rid) ==
    /\ rid \in DOMAIN net
    /\ net[rid].kind = "remove"
    /\ net[rid].stage \in {"answered", "failed"}
    /\ IF Ok(net[rid])
       THEN /\ LET keep(b) == b.id # net[rid].key
               IN  mirror' = SelectSeq(mirror, keep)
            /\ page' = ClampedPage(mirror')
            /\ toast' = Toast("success", "Book deleted")
            /\ deleting' = Null
       ELSE /\ toast' = Toast("error", IF net[rid].stage = "failed" THEN "Failed to fetch"
                                       ELSE "Failed to delete")
            /\ UNCHANGED <<mirror, page, deleting>>
    /\ net' = Without(net, rid)
    /\ lastDone' = DoneRecord(rid)
    /\ UNCHANGED <<loading, error, query, sortBy, formVars, mounted, sent, lastSubmit>>

\* the toast effect's timer: setToast(null) after 3000 ms
toastTimeout ==
    /\ toast # Null
    /\ toast' = Null
    /\ UNCHANGED <<mirror, loading, error, viewVars, formVars, deleting, mounted, net, sent,
                   lastDone, lastSubmit>>

\* the search box's onChange
setQuery(v) ==
    /\ NoOverlay
    /\ query' = v
    /\ page' = 1
    /\ UNCHANGED <<mirror, loading, error, sortBy, formVars, deleting, toast, mounted, net,
                   sent, lastDone, lastSubmit>>

\* the sort select's onChange
setSortBy(v) ==
    /\ NoOverlay
    /\ sortBy' = v
    /\ UNCHANGED <<mirror, loading, error, query, page, formVars, deleting, toast, mounted,
                   net, sent, lastDone, lastSubmit>>

\* the Reset button
reset ==
    /\ NoOverlay
    /\ query' = <<>>
    /\ sortBy' = <<"id", "desc">>
    /\ page' = 1
    /\ UNCHANGED <<mirror, loading, error, formVars, deleting, toast, mounted, net, sent,
                   lastDone, lastSubmit>>

\* the footer's First button: setPage(1)
first ==
    /\ NoOverlay
    /\ page' = 1
    /\ UNCHANGED <<mirror, loading, error, query, sortBy, formVars, deleting, toast, mounted,
                   net, sent, lastDone, lastSubmit>>

\* the Prev buttons of the toolbar and the footer: setPage(p => Math.max(1, p - 1))
prev ==
    /\ NoOverlay
    /\ page' = Max(1, page - 1)
    /\ UNCHANGED <<mirror, loading, error, query, sortBy, formVars, deleting, toast, mounted,
                   net, sent, lastDone, lastSubmit>>

\* the Next buttons of the toolbar and the footer:
\* setPage(p => Math.min(totalPages, p + 1))
next ==
    /\ NoOverlay
    /\ page' = Min(totalPages, page + 1)
    /\ UNCHANGED <<mirror, loading, error, query, sortBy, formVars, deleting, toast, mounted,
                   net, sent, lastDone, lastSubmit>>

\* the footer's Last button: setPage(totalPages)
last ==
    /\ NoOverlay
    /\ page' = totalPages
    /\ UNCHANGED <<mirror, loading, error, query, sortBy, formVars, deleting, toast, mounted,
                   net, sent, lastDone, lastSubmit>>

-----------------------------------------------------------------------------
(* The network between the component and the API service *)

Answered(rid) ==
    net' = [net EXCEPT ![rid] = [@ EXCEPT !.stage = "answered", !.served = TRUE,
                                          !.status = resp'.status, !.body = resp'.body]]

restOfClient == <<mirror, loading, error, viewVars, formVars, deleting, toast, mounted,
                  sent, lastDone, lastSubmit>>

\* the server handles a request of the component
Serve(rid) ==
    /\ rid \in DOMAIN net
    /\ net[rid].stage = "sent"
    /\ CASE net[rid].kind = "load" -> GetBooks
         [] net[rid].kind = "create" -> PostBooks(net[rid].title, net[rid].author)
         [] net[rid].kind = "update" -> PutBooks(net[rid].id, net[rid].title, net[rid].author)
         [] net[rid].kind = "remove" -> DeleteBooks(net[rid].id)
    /\ Answered(rid)
    /\ UNCHANGED <<restOfClient, foreign>>

\* the connection breaks: fetch rejects, whether or not the server got the request
NetFail(rid) ==
    /\ rid \in DOMAIN net
    /\ net[rid].stage \in {"sent", "answered"}
    /\ net' = [net EXCEPT ![rid] = [@ EXCEPT !.stage = "failed"]]
    /\ UNCHANGED <<serverVars, restOfClient, foreign>>

-----------------------------------------------------------------------------
(* The API service driven by arbitrary HTTP clients *)

Dune == <<"D", "u", "n", "e">>
Herbert == <<"F", ".", " ", "H", "e", "r", "b", "e", "r", "t">>

\* request bodies tried: JSON objects with a title and an author (an empty
\* title is accepted, the server validates nothing)
ReqBodies == { [title |-> Dune, author |-> Herbert], [title |-> <<>>, author |-> Orwell] }
\* the :id path segments tried: the decimal form of ids that can be stored, a
\* zero-padded and a space-padded number, and a segment that is no number
ReqIds == {NumToStr(1), <<"0", "2">>, <<" ", "1">>, NumToStr(StartTime), <<"x">>}

ApiInit == ServerInit /\ ClientInit /\ foreign = 0 /\ gestures = 0

ApiTick == Tick /\ UNCHANGED <<clientVars, foreign, gestures>>
ApiGet == GetBooks /\ UNCHANGED <<clientVars, foreign, gestures>>
ApiPost ==
    /\ handled < MaxHandled
    /\ \E b \in ReqBodies : PostBooks(b.title, b.author)
    /\ UNCHANGED <<clientVars, foreign, gestures>>
ApiPut ==
    /\ handled < MaxHandled
    /\ \E id \in ReqIds, b \in ReqBodies : PutBooks(id, b.title, b.author)
    /\ UNCHANGED <<clientVars, foreign, gestures>>
ApiDelete ==
    /\ handled < MaxHandled
    /\ \E id \in ReqIds : DeleteBooks(id)
    /\ UNCHANGED <<clientVars, foreign, gestures>>

ApiNext == ApiTick \/ ApiGet \/ ApiPost \/ ApiPut \/ ApiDelete

Spec == ApiInit /\ [][ApiNext]_vars

-----------------------------------------------------------------------------
(* The component talking to the API service, beside another client *)

TypedTitles == { <<" ", "a">>, <<"a", "b", " ">> }
TypedAuthors == { <<"a", "b", " ">>, <<" ", "a", "b", "c">> }

\* one more click or edit of the user
Gesture == gestures < MaxGestures /\ gestures' = gestures + 1

\* Date.now() is read by app.post alone: time is let pass while a POST is on its way
ClientTick ==
    /\ \E rid \in DOMAIN net : net[rid].kind = "create" /\ net[rid].stage = "sent"
    /\ Tick
    /\ UNCHANGED <<clientVars, foreign, gestures>>
ClientLoad == load /\ UNCHANGED <<envVars, gestures>>
ClientLoadDone == loadDone /\ UNCHANGED <<envVars, gestures>>
ClientOpenCreate == Gesture /\ openCreate /\ UNCHANGED envVars
ClientOpenEdit == Gesture /\ (\E book \in Cards : openEdit(book)) /\ UNCHANGED envVars
ClientSetTitle == Gesture /\ (\E v \in TypedTitles : setTitle(v)) /\ UNCHANGED envVars
ClientSetAuthor == Gesture /\ (\E v \in TypedAuthors : setAuthor(v)) /\ UNCHANGED envVars
ClientCloseForm == Gesture /\ closeForm /\ UNCHANGED envVars
ClientSubmitForm == Gesture /\ submitForm /\ UNCHANGED envVars
ClientCreateDone ==
    (\E rid \in DOMAIN net : createDone(rid)) /\ UNCHANGED <<envVars, gestures>>
ClientUpdateDone ==
    (\E rid \in DOMAIN net : updateDone(rid)) /\ UNCHANGED <<envVars, gestures>>
ClientAskDelete == Gesture /\ (\E book \in Cards : askDelete(book)) /\ UNCHANGED envVars
ClientCancelDelete == Gesture /\ cancelDelete /\ UNCHANGED envVars
ClientConfirmDelete == Gesture /\ confirmDelete /\ UNCHANGED envVars
ClientRemoveDone ==
    (\E rid \in DOMAIN net : removeDone(rid)) /\ UNCHANGED <<envVars, gestures>>
ClientToastTimeout == toastTimeout /\ UNCHANGED <<envVars, gestures>>
ClientServe == (\E rid \in DOMAIN net : Serve(rid)) /\ UNCHANGED gestures
ClientNetFail == (\E rid \in DOMAIN net : NetFail(rid)) /\ UNCHANGED gestures

\* another client (the plain HTML page) deletes a book it lists
OtherDelete ==
    /\ foreign < MaxForeign
    /\ foreign' = foreign + 1
    /\ \E i \in DOMAIN books : DeleteBooks(NumToStr(books[i].id))
    /\ UNCHANGED <<clientVars, gestures>>

ClientNext ==
    \/ ClientTick
    \/ ClientLoad
    \/ ClientLoadDone
    \/ ClientOpenCreate
    \/ ClientOpenEdit
    \/ ClientSetTitle
    \/ ClientSetAuthor
    \/ ClientCloseForm
    \/ ClientSubmitForm
    \/ ClientCreateDone
    \/ ClientUpdateDone
    \/ ClientAskDelete
    \/ ClientCancelDelete
    \/ ClientConfirmDelete
    \/ ClientRemoveDone
    \/ ClientToastTimeout
    \/ ClientServe
    \/ ClientNetFail
    \/ OtherDelete

SpecClient == ApiInit /\ [][ClientNext]_vars

-----------------------------------------------------------------------------
(* The component alone with the API service, on a network that loses nothing: *)
(* no other client, every request answered; the user submits once the books   *)
(* are loaded                                                                 *)

SoloSubmitForm == ~loading /\ ClientSubmitForm

SoloNext ==
    \/ ClientTick
    \/ ClientLoad
    \/ ClientLoadDone
    \/ ClientOpenCreate
    \/ ClientOpenEdit
    \/ ClientSetTitle
    \/ ClientSetAuthor
    \/ ClientCloseForm
    \/ SoloSubmitForm
    \/ ClientCreateDone
    \/ ClientUpdateDone
    \/ ClientAskDelete
    \/ ClientCancelDelete
    \/ ClientConfirmDelete
    \/ ClientRemoveDone
    \/ ClientToastTimeout
    \/ ClientServe

SpecSolo == ApiInit /\ [][SoloNext]_vars

-----------------------------------------------------------------------------
(* The search box and the sort select over a loaded mirror *)

Catalogue == { Book(1, TheHobbit, Tolkien), Book(2, NineteenEightyFour, Orwell),
               Book(StartTime, Dune, Herbert),
               Book(MaxTime, <<"o", "r", "w", "e", "l", "l">>, <<"A", "B">>) }

\* the mirrors tried: the sequences of up to MaxMirror different catalogue books
Mirrors ==
    UNION { { m \in [1..n -> Catalogue] : \A i, j \in 1..n : i # j => m[i] # m[j] } :
            n \in 0..MaxMirror }

Queries == { <<>>, <<" ", " ">>,
             <<"t", "o", "l", "k", "i", "e", "n">>,
             <<"T", "O", "L", "K", "I", "E", "N">>,
             <<" ", "T", "o", "l", "K", "i", "e", "n", " ">>,
             <<"O", "r", "w">>, <<"9", "8">>, <<"e">>, <<"E", " ", "h">>, <<"z", "z">>,
             <<"R", ".", "r">> }

FilterInit ==
    /\ ServerInit
    /\ mirror \in Mirrors
    /\ loading = FALSE
    /\ error = Null
    /\ query = <<>>
    /\ sortBy = <<"id", "desc">>
    /\ page = 1
    /\ isFormOpen = FALSE
    /\ editingBook = Null
    /\ deleting = Null
    /\ toast = Null
    /\ form = emptyForm
    /\ formErrors = {}
    /\ mounted = TRUE
    /\ net = <<>>
    /\ sent = 0
    /\ lastDone = NoRequest
    /\ lastSubmit = NoRequest
    /\ foreign = 0
    /\ gestures = 0

FilterSetQuery == (\E v \in Queries : setQuery(v)) /\ UNCHANGED <<envVars, gestures>>
FilterSetSortBy == (\E v \in SortOptions : setSortBy(v)) /\ UNCHANGED <<envVars, gestures>>
FilterReset == reset /\ UNCHANGED <<envVars, gestures>>

FilterNext == FilterSetQuery \/ FilterSetSortBy \/ FilterReset

SpecFilter == FilterInit /\ [][FilterNext]_vars

-----------------------------------------------------------------------------
(* The pagination over a loaded shelf that fills more than one page *)

MaxShelf == 9

\* the two seed books and books created since, as the server holds them
Shelf(n) == [k \in 1..n |-> IF k <= Len(SeedBooks) THEN SeedBooks[k]
                                                   ELSE Book(k, Dune, Herbert)]

PagingQueries == { <<>>, <<"O", "r", "w">> }

PagingSorts == { <<"id", "desc">>, <<"id", "asc">> }

\* the state after the load of a shelf of MaxShelf - 1 or MaxShelf books
PagingInit ==
    /\ \E n \in {MaxShelf - 1, MaxShelf} :
           /\ books = Shelf(n)
           /\ mirror = Shelf(n)
           /\ born = [k \in 1..n |-> k]
           /\ creates = n
    /\ now = MaxShelf + 1
    /\ handled = 0
    /\ lastMut = NoRequest
    /\ resp = NoRequest
    /\ loading = FALSE
    /\ error = Null
    /\ query = <<>>
    /\ sortBy = <<"id", "desc">>
    /\ page = 1
    /\ isFormOpen = FALSE
    /\ editingBook = Null
    /\ deleting = Null
    /\ toast = Null
    /\ form = emptyForm
    /\ formErrors = {}
    /\ mounted = TRUE
    /\ net = <<>>
    /\ sent = 0
    /\ lastDone = NoRequest
    /\ lastSubmit = NoRequest
    /\ foreign = 0
    /\ gestures = 0

PagingSetQuery == (\E v \in PagingQueries : setQuery(v)) /\ UNCHANGED <<envVars, gestures>>
PagingSetSortBy == (\E v \in PagingSorts : setSortBy(v)) /\ UNCHANGED <<envVars, gestures>>
PagingReset == reset /\ UNCHANGED <<envVars, gestures>>
PagingFirst == first /\ UNCHANGED <<envVars, gestures>>
PagingPrev == prev /\ UNCHANGED <<envVars, gestures>>
PagingNextPage == next /\ UNCHANGED <<envVars, gestures>>
PagingLast == last /\ UNCHANGED <<envVars, gestures>>

PagingNext ==
    \/ PagingSetQuery
    \/ PagingSetSortBy
    \/ PagingReset
    \/ PagingFirst
    \/ PagingPrev
    \/ PagingNextPage
    \/ PagingLast
    \/ ClientOpenCreate
    \/ ClientSetTitle
    \/ ClientSetAuthor
    \/ ClientSubmitForm
    \/ ClientCreateDone
    \/ ClientAskDelete
    \/ ClientConfirmDelete
    \/ ClientRemoveDone
    \/ ClientServe

SpecPaging == PagingInit /\ [][PagingNext]_vars

-----------------------------------------------------------------------------
(* Properties of the API service *)

\* the positions of bs whose id is the number the path segment id denotes
Matching(bs, id) == {i \in DOMAIN bs : ToNumber(id) # NaN /\ bs[i].id = ToNumber(id)}

\* C1: POST /books answers 201 with a record {id, title, author} carrying the
\* submitted title and author, and a list issued next, before any other
\* mutation, returns the previous collection with that record appended last.
C1_CreateThenList ==
    lastMut.op = "POST" =>
        /\ lastMut.status = 201
        /\ DOMAIN lastMut.body = {"id", "title", "author"}
        /\ lastMut.body.title = lastMut.title
        /\ lastMut.body.author = lastMut.author
        /\ lastMut.body.id \in Nat
        /\ (resp.op = "GET" =>
                /\ resp.status = 200
                /\ Len(resp.body) = Len(lastMut.before) + 1
                /\ resp.body[Len(resp.body)] = lastMut.body
                /\ \A i \in DOMAIN lastMut.before : resp.body[i] = lastMut.before[i])

C1_Witness ==
    /\ lastMut.op = "POST"
    /\ resp.op = "GET"
    /\ Len(lastMut.before) >= 3

\* C2: PUT /books/:id with an id that is present answers 200 with the updated
\* record; afterwards the list shows, at the position the (first) record with
\* that id had, a record with that id and the submitted title and author, and
\* every other record and the length are unchanged.
C2_UpdateInPlace ==
    (lastMut.op = "PUT" /\ Matching(lastMut.before, lastMut.id) # {}) =>
        LET hits == Matching(lastMut.before, lastMut.id)
            p == CHOOSE i \in hits : \A j \in hits : i <= j
            shown == IF resp.op = "GET" THEN resp.body ELSE books
        IN  /\ lastMut.status = 200
            /\ lastMut.body = Book(lastMut.before[p].id, lastMut.title, lastMut.author)
            /\ Len(shown) = Len(lastMut.before)
            /\ shown[p] = lastMut.body
            /\ \A j \in DOMAIN shown : j # p => shown[j] = lastMut.before[j]

C2_Witness ==
    /\ lastMut.op = "PUT"
    /\ lastMut.status = 200
    /\ resp.op = "GET"
    /\ Cardinality(Matching(lastMut.before, lastMut.id)) = 2
    /\ lastMut.before[Len(lastMut.before)].title # lastMut.title

\* C3: PUT /books/:id with an id that matches no record answers 404 with a
\* message body and leaves the collection as it was.
C3_UpdateMissing ==
    (lastMut.op = "PUT" /\ Matching(lastMut.before, lastMut.id) = {}) =>
        /\ lastMut.status = 404
        /\ DOMAIN lastMut.body = {"message"}
        /\ books = lastMut.before
        /\ (resp.op = "GET" => resp.body = lastMut.before)

C3_Witness ==
    /\ lastMut.op = "PUT"
    /\ lastMut.status = 404
    /\ ToNumber(lastMut.id) # NaN
    /\ resp.op = "GET"

\* C4: DELETE /books/:id answers 200 whether or not the id exists; afterwards
\* no record with that id is listed and the records with another id are all
\* still there, in their previous relative order.
C4_DeleteRemovesId ==
    lastMut.op = "DELETE" =>
        LET before == lastMut.before
            gone == Matching(before, lastMut.id)
            shown == IF resp.op = "GET" THEN resp.body ELSE books
        IN  /\ lastMut.status = 200
            /\ DOMAIN lastMut.body = {"message"}
            /\ Matching(shown, lastMut.id) = {}
            /\ Len(shown) = Len(before) - Cardinality(gone)
            /\ \E f \in [DOMAIN shown -> DOMAIN before] :
                    /\ \A i, j \in DOMAIN shown : i < j => f[i] < f[j]
                    /\ \A i \in DOMAIN shown : f[i] \notin gone /\ shown[i] = before[f[i]]

C4_Witness ==
    /\ lastMut.op = "DELETE"
    /\ resp.op = "GET"
    /\ Cardinality(Matching(lastMut.before, lastMut.id)) = 2
    /\ Len(books) = 2

\* C5: no two records of the collection have the same id.
C5_UniqueIds ==
    \A i, j \in DOMAIN books : i # j => books[i].id # books[j].id

\* C6: the list is the full collection in insertion order: the seeds first and
\* any two surviving records in the order their create requests were handled;
\* update and delete never change the relative order of surviving records.
C6_InsertionOrder ==
    /\ Len(born) = Len(books)
    /\ \A i, j \in DOMAIN born : i < j => born[i] < born[j]
    /\ (resp.op = "GET" /\ lastMut.op = "NONE" => resp.body = SeedBooks)
    /\ (resp.op = "GET" => resp.body = books)

C6_Witness ==
    /\ resp.op = "GET"
    /\ lastMut.op = "DELETE"
    /\ Len(books) < Len(lastMut.before)
    /\ \E i, j \in DOMAIN born : i < j /\ born[i] = 2 /\ born[j] = 4

-----------------------------------------------------------------------------
(* Properties of the component *)

Mutations == {"create", "update", "remove"}

C8_MirrorFrozenInFlight ==
    [][(\E rid \in DOMAIN net \cap DOMAIN net' : net[rid].kind \in Mutations)
            => mirror' = mirror]_vars

\* C8, amended: every change of the mirror happens in the step that receives the
\* successful response of a request the server has handled (and is the change
\* of that request); sending a request and waiting for it change nothing.
C8_NoOptimisticPatch ==
    [][mirror' # mirror =>
            \E rid \in DOMAIN net :
                /\ rid \notin DOMAIN net'
                /\ Ok(net[rid])
                /\ net[rid].served]_vars

C8_Witness ==
    /\ lastDone.op \in Mutations
    /\ lastDone.ok
    /\ lastDone.served
    /\ lastDone.patched
    /\ \E rid \in DOMAIN net : net[rid].kind \in Mutations /\ net[rid].stage = "answered"

SameLetter(a, b) ==
    a = b \/ \E i \in DOMAIN Upper : {a, b} = {Upper[i], Lower[i]}

\* s contains q when letter case is ignored
ContainsIgnoringCase(s, q) ==
    \E k \in 0..(Len(s) - Len(q)) : \A j \in 1..Len(q) : SameLetter(s[k + j], q[j])

Occurrences(seq, x) == Cardinality({i \in DOMAIN seq : seq[i] = x})

\* C9: the filtered list holds exactly the books of the mirror whose title or
\* author contains the trimmed query ignoring letter case (all of them when the
\* trimmed query is empty); the query "tolkien" in any letter case, on a mirror
\* holding The Hobbit by J.R.R. Tolkien and 1984 by George Orwell, gives exactly
\* the first.
C9_FilterIgnoresCase ==
    LET q == Trim(query)
        wanted(b) == q = <<>> \/ ContainsIgnoringCase(b.title, q)
                              \/ ContainsIgnoringCase(b.author, q)
        tolkien == <<"t", "o", "l", "k", "i", "e", "n">>
    IN  /\ \A b \in Catalogue :
            Occurrences(filtered, b) = IF wanted(b) THEN Occurrences(mirror, b) ELSE 0
        /\ \A i \in DOMAIN filtered : filtered[i] \in Catalogue
        /\ ( /\ Len(q) = Len(tolkien)
              /\ \A j \in DOMAIN q : SameLetter(q[j], tolkien[j])
              /\ {mirror[i] : i \in DOMAIN mirror} = {SeedBooks[1], SeedBooks[2]} )
            => filtered = <<SeedBooks[1]>>

C9_Witness ==
    /\ query = <<" ", "T", "o", "l", "K", "i", "e", "n", " ">>
    /\ mirror = <<SeedBooks[2], SeedBooks[1]>>
    /\ sortBy = <<"title", "asc">>
    /\ filtered = <<SeedBooks[1]>>

\* C10: submitForm sends nothing when the trimmed title has fewer than 2
\* characters or the trimmed author fewer than 3, so every create or update
\* request of the form carries a trimmed title of length >= 2 and a trimmed
\* author of length >= 3; a rejected submit leaves the mirror unchanged and the
\* form open.
C10_ValidatedBeforeSending ==
    /\ \A rid \in DOMAIN net :
            net[rid].kind \in {"create", "update"} =>
                /\ Len(net[rid].title) >= 2
                /\ Len(net[rid].author) >= 3
                /\ net[rid].title = Trim(net[rid].title)
                /\ net[rid].author = Trim(net[rid].author)
    /\ (lastSubmit.op = "submit"
            /\ (Len(Trim(lastSubmit.title)) < 2 \/ Len(Trim(lastSubmit.author)) < 3)) =>
            /\ ~lastSubmit.sent
            /\ ~lastSubmit.patched
            /\ lastSubmit.open

C10_Witness ==
    /\ lastSubmit.op = "submit"
    /\ lastSubmit.title = <<" ", "a">>
    /\ lastSubmit.author = <<" ", "a", "b", "c">>
    /\ ~lastSubmit.sent
    /\ isFormOpen
    /\ formErrors = {"title"}

\* every request of the component so far was answered with success and none is
\* under way, the initial load included
AllDone ==
    /\ mounted
    /\ ~loading
    /\ error = Null
    /\ net = <<>>
    /\ (lastDone.op \in Mutations => lastDone.ok)

\* C11: with a single client and no failure, once the initial load and every
\* create, update and delete issued after it have completed, the mirror holds
\* the same records, each as many times, as the server collection.
C11_MirrorEqualsServer ==
    AllDone =>
        \A b \in {mirror[i] : i \in DOMAIN mirror} \cup {books[i] : i \in DOMAIN books} :
            Occurrences(mirror, b) = Occurrences(books, b)

\* C12: the current page lies between 1 and totalPages, and the page shown is
\* empty only when the filtered list is empty.
C12_PageWithinRange ==
    /\ 1 <= page
    /\ page <= totalPages
    /\ (pageItems = <<>> => filtered = <<>>)

\* a change to the mirror took a page away and the effect moved the page back
C12_Witness ==
    /\ lastDone.op = "remove"
    /\ lastDone.patched
    /\ lastDone.clamped
    /\ page = totalPages

====
